---- MODULE Spec2Model ----
(***************************************************************************)
(* ad-hoc-iter: the fixed-size owning iterator built by the iter! macro    *)
(* (src/src/lib.rs) and the MaybeMany / MaybeManyIter types                *)
(* (src/src/maybe.rs).                                                     *)
(*                                                                         *)
(* A behaviour follows ONE object from its construction: either an         *)
(* iterator built by iter![...] (component = "iter") or a MaybeMany value  *)
(* and the iterator made from it (component = "maybe").                    *)
(***************************************************************************)
EXTENDS Integers, Sequences, FiniteSets, TLC

\* ------------------------------------------------------------------ bounds
NumValues == 2      \* distinct element values
MaxLen == 3         \* longest literal list / collection
MaxItems == 2       \* longest collection a MaybeMany holds or is chained with
MaxExtra == 1       \* calls to next() made after the first None

Values == 1..NumValues

\* Option<T>: None is the empty tuple, Some(x) the tuple of x.  A
\* MaybeUninit<T> slot is the same: uninit() holds nothing, new(x) holds x.
NONE == <<>>
Some(x) == <<x>>
UNINIT == <<>>
\* the value of ret before next() was ever called
NoCall == <<"no", "call">>
\* a variable of the component this behaviour does not follow
Unused == [tag |-> "-"]

\* Sequences over S of length 0..n
SeqUpTo(S, n) == UNION {[1..k -> S] : k \in 0..n}

VARIABLES
    component,   \* which object this behaviour follows
    \* ---- iter! (lib.rs)
    input,       \* the literal list the macro was given
    kind,        \* the struct the macro built: "Empty", "Arr" ("-" when unused)
    self_0,      \* Arr.0: the array of MaybeUninit<T> slots
    self_1,      \* Arr.1: how many items have been consumed
    needs_drop,  \* std::mem::needs_drop::<T>()
    alive,       \* the iterator has not been dropped
    ret,         \* what the last call to next() returned
    calls,       \* calls to next() so far
    yielded,     \* the values next() handed to the caller, in order
    finalized,   \* the values whose destructor the iterator's drop ran
    \* ---- MaybeMany (maybe.rs)
    mm,          \* the MaybeMany instance
    utype,       \* its type parameter U: "Empty" (std::iter::Empty<T>) or "Iter"
    last,        \* the last value operation: its name, input, argument, result
    it,          \* the MaybeManyIter made by into_iter ("-" before)
    src,         \* the MaybeMany that into_iter consumed
    mret,        \* what the last call to MaybeManyIter::next returned
    mcalls,      \* calls to MaybeManyIter::next so far
    out          \* the values MaybeManyIter::next handed out, in order

iterVars == <<input, kind, self_0, self_1, needs_drop, alive, ret, calls, yielded, finalized>>
maybeVars == <<mm, utype, last, it, src, mret, mcalls, out>>
vars == <<component, iterVars, maybeVars>>

\* ======================================================== lib.rs: iter!
\* iter!(@ ...): the number of expressions, counted one token tree at a time
RECURSIVE count(_)
count(xs) == IF xs = <<>> THEN 0 ELSE 1 + count(Tail(xs))

\* Arr::LEN
LEN == count(input)

\* MaybeUninit::new(value) for each value; MaybeUninit::uninit()
MaybeUninit_new(values) == [j \in 1..count(values) |-> <<values[j]>>]

\* MaybeUninit::assume_init: the value of an initialised slot; reading a slot
\* that holds nothing is undefined, any value may come out
assume_init(slot) == IF slot = UNINIT THEN Values ELSE {slot[1]}

\* mem::replace(&mut self.0[idx], MaybeUninit::uninit()) (idx counts from 0)
replace_uninit(a, idx) == [a EXCEPT ![idx + 1] = UNINIT]

\* Arr::len
len == LEN

\* Arr::consumed
consumed == self_1

\* Arr::rest: the slice self.0[self.1..] cast to &[T].  Each slot is read as
\* a value, so the views the cast can produce are those assume_init allows.
rest_whole(a, i) ==
    {v \in [1..Len(a) -> Values] : \A j \in 1..Len(a) : v[j] \in assume_init(a[j])}
rest_from(a, i) ==
    {v \in [1..(Len(a) - i) -> Values] :
        \A j \in 1..(Len(a) - i) : v[j] \in assume_init(a[i + j])}
rest == rest_from(self_0, self_1)

\* Arr::array
array == self_0

\* the test of Arr::next: nothing is left
exhausted(a, i) == i >= Len(a)

\* self.1 += 1
advance_stuck(i) == i
advance(i) == i + 1

\* Arr::size_hint and Empty::size_hint, as <<lower, Some(upper)>>
Arr_size_hint == <<LEN, Some(LEN)>>
Empty_size_hint == <<0, Some(0)>>
size_hint == IF kind = "Empty" THEN Empty_size_hint ELSE Arr_size_hint

\* the slots Arr's drop walks, in order: self.1..self.0.len()
drop_all(a, i) == [j \in 1..Len(a) |-> j - 1]
drop_range(a, i) == [j \in 1..(Len(a) - i) |-> i + j - 1]

\* the macro: iter![] builds Empty, iter![v, ...] builds Arr([..], 0)
InitIter ==
    /\ component = "iter"
    /\ input \in SeqUpTo(Values, MaxLen)
    /\ needs_drop \in BOOLEAN
    /\ kind = IF input = <<>> THEN "Empty" ELSE "Arr"
    /\ self_0 = IF input = <<>> THEN <<>> ELSE MaybeUninit_new(input)
    /\ self_1 = 0
    /\ alive = TRUE
    /\ ret = NoCall
    /\ calls = 0
    /\ yielded = <<>>
    /\ finalized = <<>>

\* the calls after the first None are capped
MayCallNext == ret # NONE \/ calls < Len(yielded) + 1 + MaxExtra

\* Empty::next
EmptyNext ==
    /\ component = "iter" /\ alive /\ kind = "Empty"
    /\ MayCallNext
    /\ ret' = NONE
    /\ calls' = calls + 1
    /\ UNCHANGED <<component, input, kind, self_0, self_1, needs_drop, alive, yielded, finalized>>
    /\ UNCHANGED maybeVars

\* Arr::next, nothing left
ArrNextNone ==
    /\ component = "iter" /\ alive /\ kind = "Arr"
    /\ MayCallNext
    /\ exhausted(self_0, self_1)
    /\ ret' = NONE
    /\ calls' = calls + 1
    /\ UNCHANGED <<component, input, kind, self_0, self_1, needs_drop, alive, yielded, finalized>>
    /\ UNCHANGED maybeVars

\* Arr::next, take one
ArrNextSome ==
    /\ component = "iter" /\ alive /\ kind = "Arr"
    /\ MayCallNext
    /\ ~exhausted(self_0, self_1)
    /\ \E one \in assume_init(self_0[self_1 + 1]) :
          /\ ret' = Some(one)
          /\ yielded' = Append(yielded, one)
    /\ self_0' = replace_uninit(self_0, self_1)
    /\ self_1' = advance(self_1)
    /\ calls' = calls + 1
    /\ UNCHANGED <<component, input, kind, needs_drop, alive, finalized>>
    /\ UNCHANGED maybeVars

\* Drop for Arr: when T needs dropping, every slot of drop_range is read out
\* and the value dropped, in order
ArrDrop ==
    /\ component = "iter" /\ alive /\ kind = "Arr"
    /\ alive' = FALSE
    /\ IF needs_drop
       THEN LET r == drop_range(self_0, self_1)
                n == Len(r)
            IN /\ \E vs \in [1..n -> Values] :
                    /\ \A j \in 1..n : vs[j] \in assume_init(self_0[r[j] + 1])
                    /\ finalized' = finalized \o vs
               /\ self_0' = [j \in 1..Len(self_0) |->
                               IF \E q \in 1..n : r[q] = j - 1 THEN UNINIT ELSE self_0[j]]
       ELSE UNCHANGED <<self_0, finalized>>
    /\ UNCHANGED <<component, input, kind, self_1, needs_drop, ret, calls, yielded>>
    /\ UNCHANGED maybeVars

\* Empty has no Drop and owns nothing
EmptyDrop ==
    /\ component = "iter" /\ alive /\ kind = "Empty"
    /\ alive' = FALSE
    /\ UNCHANGED <<component, input, kind, self_0, self_1, needs_drop, ret, calls, yielded, finalized>>
    /\ UNCHANGED maybeVars

\* ============================================== maybe.rs: MaybeMany<T,U>
\* enum MaybeMany
MNone == [tag |-> "None"]
MOne(t) == [tag |-> "One", one |-> t]
MMany(u) == [tag |-> "Many", many |-> u]

\* The types U ranges over.  std::iter::Empty<T>; Vec<T>; a generic iterator
\* given by the answers its next() returns in turn (None for ever once they
\* run out), which may answer None and then resume; std::iter::Chain<A,B>.
UEmpty == [ty |-> "Empty"]
UVec(items) == [ty |-> "Vec", items |-> items]
UIter(answers) == [ty |-> "Iter", answers |-> answers]
UChain(a, b) == [ty |-> "Chain", a |-> a, b |-> b]
\* vec::IntoIter<T>: the buffer and how far it was read
VecIntoIter(buf, pos) == [ty |-> "VecIter", buf |-> buf, pos |-> pos]

wrap(items) == [j \in 1..Len(items) |-> Some(items[j])]

Vecs == {UVec(v) : v \in SeqUpTo(Values, MaxItems)}
\* iterators that answer None once and then yield one more value
Resuming ==
    {UIter(wrap(v) \o <<NONE, Some(w)>>) : v \in SeqUpTo(Values, MaxItems - 1), w \in Values}
Collections == {UEmpty} \cup Vecs \cup Resuming

\* U::into_iter: a Vec becomes a vec::IntoIter, an iterator is itself
U_into_iter(u) == IF u.ty = "Vec" THEN VecIntoIter(u.items, 0) ELSE u

\* enum MaybeManyIter
INone == [tag |-> "None"]
IOne(once) == [tag |-> "One", once |-> once]
IMany(fuse) == [tag |-> "Many", fuse |-> fuse]

\* std::iter::once(value): an Option's iterator holding the value
once(value) == Some(value)
\* Iterator::fuse: Fuse { iter: Some(iter) }
fuse(iter) == Some(iter)

\* IntoIterator for MaybeMany
into_iter_loses_one(m) ==
    CASE m.tag = "None" -> INone
      [] m.tag = "One" -> INone
      [] m.tag = "Many" -> IMany(fuse(U_into_iter(m.many)))
into_iter(m) ==
    CASE m.tag = "None" -> INone
      [] m.tag = "One" -> IOne(once(m.one))
      [] m.tag = "Many" -> IMany(fuse(U_into_iter(m.many)))

\* ---- next(): each returns <<the Option returned, the iterator afterwards>>
RECURSIVE U_next(_)
RECURSIVE MaybeManyIter_next(_)

\* Once::next: Option::take
Once_next(o) == <<o, NONE>>

\* Fuse::next: a None from the inner iterator drops it for good
Fuse_next_resuming(f) ==
    IF f = NONE THEN <<NONE, NONE>>
    ELSE LET r == U_next(f[1]) IN <<r[1], Some(r[2])>>
Fuse_next(f) ==
    IF f = NONE THEN <<NONE, NONE>>
    ELSE LET r == U_next(f[1])
         IN IF r[1] = NONE THEN <<NONE, NONE>> ELSE <<r[1], Some(r[2])>>

\* Chain::next: a until it answers None (a is then dropped), then b
Chain_next(c) ==
    LET ra == IF c.a = NONE THEN <<NONE, NONE>>
              ELSE LET r == MaybeManyIter_next(c.a[1])
                   IN IF r[1] = NONE THEN <<NONE, NONE>> ELSE <<r[1], Some(r[2])>>
    IN IF ra[1] # NONE THEN <<ra[1], UChain(ra[2], c.b)>>
       ELSE IF c.b = NONE THEN <<NONE, UChain(ra[2], c.b)>>
       ELSE LET rb == U_next(c.b[1]) IN <<rb[1], UChain(ra[2], Some(rb[2]))>>

U_next(u) ==
    CASE u.ty = "Empty" -> <<NONE, u>>
      [] u.ty = "VecIter" ->
           IF u.pos >= Len(u.buf) THEN <<NONE, u>>
           ELSE <<Some(u.buf[u.pos + 1]), VecIntoIter(u.buf, u.pos + 1)>>
      [] u.ty = "Iter" ->
           IF u.answers = <<>> THEN <<NONE, u>>
           ELSE <<Head(u.answers), UIter(Tail(u.answers))>>
      [] u.ty = "Chain" -> Chain_next(u)

\* MaybeManyIter::next
MaybeManyIter_next(i) ==
    CASE i.tag = "None" -> <<NONE, i>>
      [] i.tag = "One" -> LET r == Once_next(i.once) IN <<r[1], IOne(r[2])>>
      [] i.tag = "Many" -> LET r == Fuse_next(i.fuse) IN <<r[1], IMany(r[2])>>

\* ---- size_hint(): <<lower, upper>>, upper an Option<usize>
RECURSIVE U_size_hint(_)
RECURSIVE MaybeManyIter_size_hint(_)

add_hints(x, y) ==
    <<x[1] + y[1], IF x[2] = NONE \/ y[2] = NONE THEN NONE ELSE Some(x[2][1] + y[2][1])>>

\* Fuse::size_hint
Fuse_size_hint(f) == IF f = NONE THEN <<0, Some(0)>> ELSE U_size_hint(f[1])

\* Chain::size_hint
Chain_size_hint(c) ==
    add_hints(IF c.a = NONE THEN <<0, Some(0)>> ELSE MaybeManyIter_size_hint(c.a[1]),
              IF c.b = NONE THEN <<0, Some(0)>> ELSE U_size_hint(c.b[1]))

U_size_hint(u) ==
    CASE u.ty = "Empty" -> <<0, Some(0)>>
      [] u.ty = "VecIter" -> <<Len(u.buf) - u.pos, Some(Len(u.buf) - u.pos)>>
      [] u.ty = "Iter" -> <<0, NONE>>     \* Iterator::size_hint's default
      [] u.ty = "Chain" -> Chain_size_hint(u)

\* MaybeManyIter::size_hint
MaybeManyIter_size_hint(i) ==
    CASE i.tag = "None" -> <<0, Some(0)>>
      [] i.tag = "One" -> <<1, Some(1)>>
      [] i.tag = "Many" -> Fuse_size_hint(i.fuse)

\* ---- the closures handed to the mapping operations
\* FnOnce(T) -> T
OneFns == {"id", "succ"}
apply_one(f, t) == IF f = "succ" THEN (t % NumValues) + 1 ELSE t
\* FnOnce(T) -> W; a W that is std::iter::Empty can only be empty
TransFns == {"vec1", "vec2"}
apply_trans(f, w, t) ==
    IF w = "Empty" THEN UEmpty
    ELSE IF f = "vec1" THEN UVec(<<t>>) ELSE UVec(<<t, apply_one("succ", t)>>)
\* FnOnce(U) -> A
ManyFns == {"id", "fixed"}
apply_many(f, u) == IF f = "fixed" THEN UVec(<<1>>) ELSE u
\* W::from(many) with W = U, the reflexive impl From<T> for T
W_from(many) == many

\* ---- the value operations of MaybeMany; each is the value returned
\* MaybeMany::one, MaybeMany::none
one(value) == MOne(value)
none == MNone

\* MaybeMany::map_single_into_many (only for U = std::iter::Empty<T>)
map_single_into_many(m, trans) ==
    IF m.tag = "One" THEN MMany(apply_trans(trans, "Vec", m.one)) ELSE MNone

\* MaybeMany::map_none (only for U = std::iter::Empty<T>)
map_none(m) ==
    IF m.tag = "None" \/ m.tag = "Many" THEN MNone ELSE MOne(m.one)

\* MaybeMany::map_into_many
map_into_many(m, w, trans) ==
    CASE m.tag = "None" -> MNone
      [] m.tag = "One" -> MMany(apply_trans(trans, w, m.one))
      [] m.tag = "Many" -> MMany(W_from(m.many))

\* MaybeMany::map_many
map_many(m, fun) ==
    CASE m.tag = "One" -> MOne(m.one)
      [] m.tag = "Many" -> MMany(apply_many(fun, m.many))
      [] m.tag = "None" -> MNone

\* MaybeMany::map_one
map_one_demotes(m, fun) ==
    IF m.tag = "One" THEN MOne(apply_one(fun, m.one)) ELSE MNone
map_one(m, fun) ==
    CASE m.tag = "One" -> MOne(apply_one(fun, m.one))
      [] m.tag = "Many" -> MMany(m.many)
      [] m.tag = "None" -> MNone

\* MaybeMany::map
map(m, fone, fmany) ==
    CASE m.tag = "One" -> MOne(apply_one(fone, m.one))
      [] m.tag = "Many" -> MMany(apply_many(fmany, m.many))
      [] m.tag = "None" -> MNone

\* MaybeMany::chain
chain_drops_self(m, iter) == MMany(UChain(NONE, Some(U_into_iter(iter))))
chain(m, iter) == MMany(UChain(Some(into_iter(m)), Some(U_into_iter(iter))))

\* MaybeMany::take: mem::replace(self, None), as <<returned, self afterwards>>
take_keep(m) == <<m, m>>
take(m) == <<m, MNone>>

\* MaybeMany::size_hint, is_none, is_single, is_many
MaybeMany_size_hint(m) ==
    CASE m.tag = "None" -> Some(0) [] m.tag = "One" -> Some(1) [] m.tag = "Many" -> NONE
is_none(m) == m.tag = "None"
is_single(m) == m.tag = "One"
is_many(m) == m.tag = "Many"

\* ---- the state machine of one MaybeMany value
NoOp == [op |-> "-", prevop |-> "-", before |-> Unused, arg |-> Unused, result |-> Unused]
Did(op, before, arg, result) ==
    [op |-> op, prevop |-> last.op, before |-> before, arg |-> arg, result |-> result]

\* the enum is public: a value starts in any variant
InitMaybe ==
    /\ component = "maybe"
    /\ \/ /\ utype = "Empty"
          /\ mm \in {none} \cup {one(v) : v \in Values} \cup {MMany(UEmpty)}
       \/ /\ utype = "Other"
          /\ mm \in {MNone} \cup {MOne(v) : v \in Values}
                     \cup {MMany(u) : u \in Vecs \cup Resuming}
    /\ last = NoOp
    /\ it = Unused
    /\ src = Unused
    /\ mret = NoCall
    /\ mcalls = 0
    /\ out = <<>>

\* the value is still there: into_iter has not consumed it
Held == component = "maybe" /\ it.tag = "-"

ValueStep(op, arg, result, u) ==
    /\ mm' = result
    /\ utype' = u
    /\ last' = Did(op, mm, arg, result)
    /\ UNCHANGED <<component, it, src, mret, mcalls, out>>
    /\ UNCHANGED iterVars

MapSingleIntoMany ==
    /\ Held /\ utype = "Empty"
    /\ \E trans \in TransFns :
         ValueStep("map_single_into_many", Unused, map_single_into_many(mm, trans), "Other")

MapNone ==
    /\ Held /\ utype = "Empty"
    /\ \E v \in {"Empty", "Other"} : ValueStep("map_none", Unused, map_none(mm), v)

MapIntoMany ==
    /\ Held
    /\ \E trans \in TransFns :
         ValueStep("map_into_many", Unused, map_into_many(mm, utype, trans), utype)

MapMany ==
    /\ Held
    /\ \E fun \in ManyFns :
         ValueStep("map_many", Unused, map_many(mm, fun),
                   IF fun = "fixed" THEN "Other" ELSE utype)

MapOne ==
    /\ Held
    /\ \E fun \in OneFns : ValueStep("map_one", Unused, map_one(mm, fun), utype)

Map ==
    /\ Held
    /\ \E fone \in OneFns, fmany \in ManyFns :
         ValueStep("map", Unused, map(mm, fone, fmany),
                   IF fmany = "fixed" THEN "Other" ELSE utype)

\* the value chained is one that was not itself built by chain, which keeps
\* the nesting of Chain inside Chain at one level
Chainable(m) == ~(m.tag = "Many" /\ m.many.ty = "Chain")

Chain ==
    /\ Held /\ Chainable(mm)
    /\ \E iter \in Collections : ValueStep("chain", iter, chain(mm, iter), "Other")

Take ==
    /\ Held
    /\ LET r == take(mm)
       IN /\ mm' = r[2]
          /\ last' = Did("take", mm, Unused, r[1])
    /\ UNCHANGED <<component, utype, it, src, mret, mcalls, out>>
    /\ UNCHANGED iterVars

IntoIter ==
    /\ Held
    /\ it' = into_iter(mm)
    /\ src' = mm
    /\ mm' = Unused
    /\ UNCHANGED <<component, utype, last, mret, mcalls, out>>
    /\ UNCHANGED iterVars

\* MaybeManyIter::next; the calls after the first None are capped
MNext ==
    /\ component = "maybe" /\ it.tag # "-"
    /\ mret # NONE \/ mcalls < Len(out) + 1 + MaxExtra
    /\ LET r == MaybeManyIter_next(it)
       IN /\ mret' = r[1]
          /\ it' = r[2]
          /\ out' = IF r[1] = NONE THEN out ELSE Append(out, r[1][1])
    /\ mcalls' = mcalls + 1
    /\ UNCHANGED <<component, mm, utype, last, src>>
    /\ UNCHANGED iterVars

\* ------------------------------------------------- the unused component
NoMaybe ==
    /\ mm = Unused /\ utype = "-" /\ last = NoOp /\ it = Unused
    /\ src = Unused /\ mret = NoCall /\ mcalls = 0 /\ out = <<>>

NoIter ==
    /\ input = <<>> /\ kind = "-" /\ self_0 = <<>> /\ self_1 = 0
    /\ needs_drop = FALSE /\ alive = FALSE /\ ret = NoCall /\ calls = 0
    /\ yielded = <<>> /\ finalized = <<>>

Init == (InitIter /\ NoMaybe) \/ (InitMaybe /\ NoIter)

Next ==
    \/ EmptyNext \/ ArrNextNone \/ ArrNextSome \/ ArrDrop \/ EmptyDrop
    \/ MapSingleIntoMany \/ MapNone \/ MapIntoMany \/ MapMany \/ MapOne \/ Map
    \/ Chain \/ Take \/ IntoIter \/ MNext

Spec == Init /\ [][Next]_vars
\* ================================================================ claims
\* the number of values next() has handed out after `c` calls on `n` values
Min(a, b) == IF a <= b THEN a ELSE b
N == Len(input)
k == Min(calls, N)

\* the elements of a collection / iterator, by definition: what its
\* iterator yields before it first answers None
RECURSIVE TakeSome(_)
TakeSome(answers) ==
    IF answers = <<>> \/ Head(answers) = NONE THEN <<>>
    ELSE <<Head(answers)[1]>> \o TakeSome(Tail(answers))
RECURSIVE ItemsOfU(_)
RECURSIVE ItemsOfIt(_)
ItemsOfU(u) ==
    CASE u.ty = "Empty" -> <<>>
      [] u.ty = "Vec" -> u.items
      [] u.ty = "VecIter" -> SubSeq(u.buf, u.pos + 1, Len(u.buf))
      [] u.ty = "Iter" -> TakeSome(u.answers)
      [] u.ty = "Chain" -> (IF u.a = NONE THEN <<>> ELSE ItemsOfIt(u.a[1]))
                            \o (IF u.b = NONE THEN <<>> ELSE ItemsOfU(u.b[1]))
ItemsOfIt(i) ==
    CASE i.tag = "None" -> <<>>
      [] i.tag = "One" -> IF i.once = NONE THEN <<>> ELSE <<i.once[1]>>
      [] i.tag = "Many" -> IF i.fuse = NONE THEN <<>> ELSE ItemsOfU(i.fuse[1])
ItemsOf(m) ==
    CASE m.tag = "None" -> <<>>
      [] m.tag = "One" -> <<m.one>>
      [] m.tag = "Many" -> ItemsOfU(m.many)

\* after mcalls calls, next() has handed out the first mcalls elements of e,
\* each call returning the next one, and None once e ran out
Drained(e) ==
    /\ out = SubSeq(e, 1, Min(mcalls, Len(e)))
    /\ mcalls \in 1..Len(e) => mret = Some(e[mcalls])
    /\ mcalls > Len(e) => mret = NONE

Iterating == component = "maybe" /\ it.tag # "-"

\* C1: the iterator built from a list of N values returns exactly those
\* values, once each and in the order written, in its first N calls to
\* next(), and None in every call after the N-th.
C1_YieldsInOrder ==
    component = "iter" =>
        /\ yielded = SubSeq(input, 1, k)
        /\ calls \in 1..N => ret = Some(input[calls])
        /\ calls > N => ret = NONE
C1_Witness ==
    /\ component = "iter" /\ N = MaxLen /\ input[1] # input[2]
    /\ yielded = input /\ ret = NONE

\* C2: dropping the iterator after k calls to next() runs the destructor of
\* exactly the values in slots [k, N), once each and in order, and of none of
\* the k values already yielded: yielded and finalized together are the
\* input.  (A T that needs no drop has no destructor to run.)
C2_DropFinalizesRest ==
    component = "iter" =>
        /\ alive => finalized = <<>>
        /\ ~alive /\ needs_drop =>
              /\ finalized = SubSeq(input, k + 1, N)
              /\ yielded \o finalized = input
        /\ ~alive /\ ~needs_drop => finalized = <<>>
C2_Witness ==
    /\ component = "iter" /\ ~alive /\ needs_drop
    /\ Len(yielded) = 1 /\ Len(finalized) = MaxLen - 1

\* C3: the size the iterator reports is N - k after k calls to next().
C3_SizeHintRemaining ==
    component = "iter" /\ alive => size_hint = <<N - k, Some(N - k)>>

\* C4: after k calls to next(), consumed() is k and rest() is the view of
\* the last N - k values of the input, in order.
C4_ConsumedAndRest ==
    component = "iter" /\ kind = "Arr" /\ alive =>
        /\ consumed = k
        /\ len - consumed = N - k
        /\ rest = {SubSeq(input, k + 1, N)}
C4_Witness ==
    /\ component = "iter" /\ kind = "Arr" /\ alive
    /\ consumed = 1 /\ N = MaxLen /\ input[2] # input[3]

\* C5: the iterator made from a MaybeMany yields nothing for None, the
\* payload and then nothing for One, and for Many(c) the elements of c in
\* c's order (what c's iterator yields before it first answers None).
C5_IntoIterYields == Iterating => Drained(ItemsOf(src))
C5_Witness ==
    /\ Iterating /\ src.tag = "Many" /\ src.many.ty = "Vec"
    /\ Len(src.many.items) = MaxItems /\ src.many.items[1] # src.many.items[2]
    /\ out = src.many.items /\ mret = NONE
\* C6: chain(other) returns a Many whose iterator yields the elements of
\* self in order and then those of other in order, whatever variant self is.
C6_ChainYieldsBoth ==
    component = "maybe" /\ last.op = "chain" =>
        /\ last.result.tag = "Many"
        /\ Iterating /\ src = last.result =>
              Drained(ItemsOf(last.before) \o ItemsOfU(last.arg))
\* one(x).map_single_into_many(|x| vec![x, y]).chain(vec![a, b]), drained
C6_Witness ==
    /\ Iterating /\ last.op = "chain" /\ last.prevop = "map_single_into_many"
    /\ src = last.result
    /\ Len(ItemsOf(last.before)) = 2 /\ Len(ItemsOfU(last.arg)) = 2
    /\ Len(out) = 4 /\ mret = NONE

\* C7 as written: every mapping operation preserves the variant or turns One
\* into Many; none returns One or None for a Many, none returns anything but
\* None for a None.
MappingOps ==
    {"map_single_into_many", "map_none", "map_into_many", "map_many", "map_one", "map"}
EmptyOnlyOps == {"map_single_into_many", "map_none"}
C7_AsWritten ==
    last.op \in MappingOps =>
        /\ last.before.tag = "None" => last.result.tag = "None"
        /\ last.before.tag = "One" => last.result.tag \in {"One", "Many"}
        /\ last.before.tag = "Many" => last.result.tag = "Many"
\* besides take(), only the two operations above leave None where there was a value
C7_OnlyTheseReachNone ==
    (last.op \notin EmptyOnlyOps \cup {"take", "-"} /\ last.before.tag # "None")
        => last.result.tag # "None"
\* C7, amended: as above, except that map_single_into_many and map_none,
\* which exist only for U = std::iter::Empty<T>, return None for a Many
\* (which can only be Many(Empty)); besides take(), only those two move an
\* instance to None.
C7_TagsPreserved ==
    /\ C7_OnlyTheseReachNone
    /\ last.op \in MappingOps =>
        /\ last.before.tag = "None" => last.result.tag = "None"
        /\ last.before.tag = "One" => last.result.tag \in {"One", "Many"}
        /\ last.before.tag = "Many" =>
              IF last.op \in EmptyOnlyOps
              THEN last.result.tag = "None" /\ last.before.many = UEmpty
              ELSE last.result.tag = "Many"
C7_Witness ==
    /\ last.op = "map_one" /\ last.before.tag = "Many" /\ last.result.tag = "Many"
\* C8: once next() has returned None, every later call returns None, for the
\* iterators of iter! and for MaybeManyIter.
C8_Fused ==
    [][(ret = NONE => ret' = NONE) /\ (mret = NONE => mret' = NONE)]_vars
\* a Many over an iterator that would resume, asked again after its None
C8_Witness ==
    /\ Iterating /\ src.tag = "Many" /\ src.many.ty = "Iter"
    /\ mret = NONE /\ mcalls >= Len(out) + 2
\* C9: take() returns the instance as it was and leaves it None; a second
\* take() right after returns None.
C9_Take ==
    component = "maybe" /\ last.op = "take" =>
        /\ last.result = last.before
        /\ Held => mm = MNone
        /\ last.prevop = "take" => last.result = MNone
C9_Witness ==
    /\ Held /\ last.op = "take" /\ last.before.tag = "Many" /\ mm = MNone
\* C10: MaybeManyIter's size_hint bounds the number of elements still to be
\* yielded, and is exactly that number for the None and One variants.
C10_SizeHintBounds ==
    Iterating =>
        LET h == MaybeManyIter_size_hint(it)
            n == Len(ItemsOfIt(it))
        IN /\ h[1] <= n
           /\ h[2] # NONE => n <= h[2][1]
           /\ it.tag \in {"None", "One"} => h = <<n, Some(n)>>
====
